---- MODULE Spec2Model ----
(***************************************************************************)
(* kitapandu-backend: the JWT credential verifier (lib/jwt.ts), the token  *)
(* blacklist service (lib/tokenBlacklist.ts), the three access guards      *)
(* (middleware/auth.ts) and the login / logout routes (routes/auth.ts).    *)
(*                                                                         *)
(* Every request is a small state machine whose steps are the stretches of *)
(* synchronous code between two awaits: the awaits are the store calls     *)
(* (findUnique, delete, create, deleteMany), and other requests, the       *)
(* cleanup timer and the clock may act between them.                       *)
(***************************************************************************)
EXTENDS Integers, Sequences, FiniteSets

VARIABLES
    now,        \* the wall clock, in milliseconds (scaled: MsPerSec per second)
    issued,     \* every token generateToken has returned, in order of issue
    uuidCount,  \* number of identifiers uuidv4() has handed out
    store,      \* the TokenBlacklist table: its rows in order of insertion
    req,        \* the requests in flight, one record per slot
    purge,      \* the cleanupExpiredTokens runs in flight: slot -> cutoff or NoRun
    purged,     \* the last bulk delete (purge or revokeUserTokens) and what it returned,
                \* while the clock and the table are as it left them
    loggedOut,  \* history: the tokens whose logout inserted a row
    db          \* the other tables: users, donation allocations, classes, announcements

vars == <<now, issued, uuidCount, store, req, purge, purged, loggedOut, db>>

----------------------------------------------------------------------------
(* Bounds of the model *)

MaxNow == 3          \* the clock stops here
MsPerSec == 2        \* clock ticks per second (the code's 1000, scaled down)
JWT_EXPIRY == 1      \* token lifetime in seconds (JWT_EXPIRES_IN, "7d" by default, scaled down)
MaxTokens == 2       \* logins
MaxReq == 2          \* request slots (concurrent requests)
MaxPurge == 1        \* overlapping cleanup runs

Reqs == 1..MaxReq
Purges == 1..MaxPurge

\* No cleanup run in the slot.
NoRun == -1

\* What `purged` holds once time has passed, a row was inserted or a purge failed.
NoPurge == [cutoff |-> NoRun, userId |-> "", count |-> 0, logged |-> "", thrown |-> FALSE,
            others |-> 0]

----------------------------------------------------------------------------
(* The user table, as seeded: one admin, one operator *)

Users == {"u1", "u2"}
UserRole(u) == IF u = "u1" THEN "admin" ELSE "operator"

\* The user table with an account an admin has deactivated (PUT /users/:id);
\* an account's email stands for the account.
Accounts == Users \cup {"u3"}
IsActive(u) == u # "u3"

JWT_SECRET == "secret"

----------------------------------------------------------------------------
(* lib/jwt.ts *)

\* What stands for "no payload": verifyToken's null, an absent req.user.
NoPayload == [id |-> "", role |-> "", jti |-> 0, iat |-> 0, exp |-> 0]

\* jsonwebtoken's HMAC, symbolically: a signature is the key and the signed payload.
Sign(secret, payload) == <<secret, payload>>

\* A string that is no JWT at all.
Garbage == [payload |-> NoPayload, sig |-> Sign("", NoPayload)]

\* Date.now() / 1000, floored: the clock jsonwebtoken reads.
NowSec(t) == t \div MsPerSec

\* uuidv4(): a fresh identifier at every call.
uuidv4 == uuidCount + 1

\* Mutant of NewJti: the identifier is derived from the user, not drawn afresh.
JtiOfUser(id) == IF id = "u1" THEN 1 ELSE 2

\* generateToken's jti.
NewJti(id) == uuidv4

\* generateToken(payload) at time t: jwt.sign({...payload, jti}, JWT_SECRET, {expiresIn}).
generateToken(id, role, t) ==
    LET p == [id |-> id, role |-> role, jti |-> NewJti(id),
              iat |-> NowSec(t), exp |-> NowSec(t) + JWT_EXPIRY]
    IN [payload |-> p, sig |-> Sign(JWT_SECRET, p)]

\* Mutant of verifyToken: exp, in seconds, is compared with the clock in milliseconds.
verifyTokenMs(token, t) ==
    IF /\ token # Garbage
       /\ token.sig = Sign(JWT_SECRET, token.payload)
       /\ t < token.payload.exp
    THEN token.payload
    ELSE NoPayload

\* verifyToken(token) at time t: the payload, or null (NoPayload) when jwt.verify
\* throws: malformed, bad signature, or expired (clock >= exp).
verifyToken(token, t) ==
    IF /\ token # Garbage
       /\ token.sig = Sign(JWT_SECRET, token.payload)
       /\ NowSec(t) < token.payload.exp
    THEN token.payload
    ELSE NoPayload

\* decodeToken(token): the payload without any check, null when it is no JWT.
decodeToken(token) == IF token = Garbage THEN NoPayload ELSE token.payload

\* Mutant of getTokenExpiration: a token revoked once more gets a later expiry.
getTokenExpirationExtended(token) ==
    IF token \in loggedOut THEN decodeToken(token).exp + 1 ELSE decodeToken(token).exp

getTokenExpiration(token) == decodeToken(token).exp
getTokenJti(token) == decodeToken(token).jti

----------------------------------------------------------------------------
(* The Authorization header, as authHeader.split(' ') sees it: <<>> is an  *)
(* absent (or empty) header, otherwise the sequence of its parts.          *)

Range(s) == {s[i] : i \in 1..Len(s)}

\* A token whose payload was changed after signing.
Tamper(token) == [token EXCEPT !.payload.exp = @ + 1]

Presentable == {Garbage} \cup Range(issued) \cup {Tamper(t) : t \in Range(issued)}

\* Every shape of header: absent, one part, another scheme, a bearer token.
Headers ==
    {<<>>, <<"Bearer">>}
      \cup {<<"Bearer", t>> : t \in Presentable}
      \cup {<<"Basic", t>> : t \in Range(issued)}

\* The headers of the clients that have logged in: a bearer token they were issued.
IssuedHeaders == {<<"Bearer", t>> : t \in Range(issued)}

----------------------------------------------------------------------------
(* lib/tokenBlacklist.ts: the table and its queries *)

\* A row of TokenBlacklist (its id and createdAt are read by nothing).
Row(jti, expiresAt, userId) == [jti |-> jti, expiresAt |-> expiresAt, userId |-> userId]

\* findUnique({where: {jti}}): the rows with that jti (the unique index allows one).
RowsOf(jti) == {i \in 1..Len(store) : store[i].jti = jti}

\* Mutant of IsExpired: a row is expired at its expiry already.
IsExpiredAtExpiry(row, t) == t >= row.expiresAt

\* new Date() > blacklistedToken.expiresAt
IsExpired(row, t) == t > row.expiresAt

\* Mutant of ExpiredBefore: the purge takes the rows expiring at the cutoff too.
ExpiredAtOrBefore(row, cutoff) == row.expiresAt <= cutoff

\* {expiresAt: {lt: cutoff}}
ExpiredBefore(row, cutoff) == row.expiresAt < cutoff

\* The table after delete({where: {jti}}).
DeleteWhere(jti) == SelectSeq(store, LAMBDA row : row.jti # jti)

\* The table after deleteMany({where: {expiresAt: {lt: cutoff}}}).
DeleteManyBefore(cutoff) == SelectSeq(store, LAMBDA row : ~ExpiredBefore(row, cutoff))

\* new Date(expiresAt * 1000): the token's exp, in seconds, as a time of the clock.
ToDate(expSec) == expSec * MsPerSec

----------------------------------------------------------------------------
(* A request: the guard's and the handler's local state *)

Idle == [pc |-> "idle", guard |-> "", route |-> "", header |-> <<>>,
         payload |-> NoPayload, isBlacklisted |-> "pending", deleted |-> FALSE,
         logged |-> "", status |-> 0, message |-> "", user |-> NoPayload, nexted |-> FALSE,
         errors |-> "", afterLogout |-> FALSE, mutated |-> FALSE, body |-> <<>>,
         pagination |-> <<>>]

\* The slots once the answered requests are forgotten: a finished request's
\* record is kept for one step only (nothing reads it).
Settled == [x \in Reqs |-> IF req[x].pc = "done" THEN Idle ELSE req[x]]

\* The slots after request r has taken a step to q.
Step(r, q) == [Settled EXCEPT ![r] = q]

\* Slots are interchangeable: a new request takes the lowest free one.
Free(r) ==
    /\ req[r].pc \in {"idle", "done"}
    /\ \A x \in Reqs : x < r => req[x].pc \notin {"idle", "done"}

\* errors = null in a response body.
NoErrors == ""

\* errorResponse(res, message, statusCode, errors = null): the response
\* {success: false, message, errors} is sent with the status, the request ends.
errorResponse(q, message, statusCode, errors) ==
    [q EXCEPT !.pc = "done", !.status = statusCode, !.message = message,
              !.errors = errors]

\* The message of the role check, per guard.
Insufficient(guard) ==
    IF guard = "requiredAdmin"
    THEN "Insufficient permissions. Only admin can access this resource."
    ELSE "Insufficient permissions. Only users can access this resource."

\* Mutant of Permitted: requiredAdmin lets the roles of authMiddleware through.
PermittedSameForAll(guard) == {"admin", "operator"}

\* The roles each guard lets through.
Permitted(guard) ==
    IF guard = "requiredAdmin" THEN {"admin"} ELSE {"admin", "operator"}

\* The routes whose handler creates, updates or deletes a persisted resource.
MutatingRoutes ==
    {"POST /students", "PUT /students/:id", "DELETE /students/:id",
     "POST /enrollments", "PUT /enrollments/:id", "DELETE /enrollments/:id",
     "POST /classes", "PUT /classes/:id", "DELETE /classes/:id",
     "POST /schedules", "PUT /schedules/:id", "DELETE /schedules/:id",
     "POST /programs", "PUT /programs/:id", "DELETE /programs/:id",
     "POST /mentors", "PUT /mentors/:id", "DELETE /mentors/:id",
     "POST /announcements", "PUT /announcements/:id", "DELETE /announcements/:id",
     "POST /donations", "PUT /donations/:id", "DELETE /donations/:id",
     "POST /donations/:id/allocations", "PUT /donations/:id/allocations/:id",
     "DELETE /donations/:id/allocations/:id",
     "PUT /users/:id", "DELETE /users/:id", "POST /auth/signup"}

\* The middleware each of these routes is mounted with ("none": the handler is
\* the only argument of router.post).
RouteGuard(route) ==
    IF route \in {"POST /students", "POST /enrollments"} THEN "none"
    ELSE IF route \in {"PUT /users/:id", "DELETE /users/:id", "POST /auth/signup"}
    THEN "requiredAdmin"
    ELSE "authMiddleware"

\* next(): the route's handler starts. POST /logout runs up to its await of
\* blacklistToken (jti and exp of a token the guard admitted are never empty);
\* the other handlers are not followed.
Handler(q) ==
    IF q.route = "/logout" /\ q.header # <<>>
       /\ getTokenJti(q.header[2]) # 0 /\ getTokenExpiration(q.header[2]) # 0
    THEN [q EXCEPT !.pc = "insert", !.nexted = TRUE]
    ELSE [q EXCEPT !.pc = "done", !.nexted = TRUE,
                   !.mutated = q.route \in MutatingRoutes,
                   !.status = IF q.route = "/logout" THEN 200 ELSE 0,
                   !.message = IF q.route = "/logout" THEN "Logout successful" ELSE ""]

\* Mutant of GuardEnter: an expired token is told apart from a forged one.
GuardEnterTellsExpired(q, t, threw) ==
    IF threw THEN errorResponse(q, "Authentication error", 500, "internal fault")
    ELSE IF q.header = <<>>
    THEN errorResponse(q, "Missing authorization header", 401, NoErrors)
    ELSE IF Len(q.header) # 2 \/ q.header[1] # "Bearer"
    THEN errorResponse(q, "Invalid authorization header format. Expected: Bearer <token>", 401, NoErrors)
    ELSE LET payload == verifyToken(q.header[2], t) IN
         IF payload = NoPayload /\ q.header[2] \in Range(issued)
         THEN errorResponse(q, "Token expired", 401, NoErrors)
         ELSE IF payload = NoPayload
         THEN errorResponse(q, "Invalid or expired token", 401, NoErrors)
         ELSE [q EXCEPT !.pc = "lookup", !.payload = payload]

\* authMiddleware and requiredAdmin from the start of the try block to the await
\* of isJtiBlacklisted. threw: a statement of the try block itself throws (the
\* two helpers catch their own errors), which the catch turns into a 500.
GuardEnter(q, t, threw) ==
    IF threw THEN errorResponse(q, "Authentication error", 500, "internal fault")
    ELSE IF q.header = <<>>
    THEN errorResponse(q, "Missing authorization header", 401, NoErrors)
    ELSE IF Len(q.header) # 2 \/ q.header[1] # "Bearer"
    THEN errorResponse(q, "Invalid authorization header format. Expected: Bearer <token>", 401, NoErrors)
    ELSE LET payload == verifyToken(q.header[2], t) IN
         IF payload = NoPayload
         THEN errorResponse(q, "Invalid or expired token", 401, NoErrors)
         ELSE [q EXCEPT !.pc = "lookup", !.payload = payload]

\* Mutant of GuardDecide: the role is checked before the revocation result.
GuardDecideRoleFirst(q, isBlacklisted) ==
    LET q1 == [q EXCEPT !.isBlacklisted = IF isBlacklisted THEN "true" ELSE "false"] IN
    IF q1.payload.role \notin Permitted(q1.guard)
    THEN errorResponse(q1, Insufficient(q1.guard), 403, NoErrors)
    ELSE IF isBlacklisted
    THEN errorResponse(q1, "Token has been revoked. Please login again.", 401, NoErrors)
    ELSE Handler([q1 EXCEPT !.user = q1.payload])

\* Mutant of GuardDecide: the `return` after the revoked response is missing,
\* so the guard goes on to attach the claim and call next().
GuardDecideFallsThrough(q, isBlacklisted) ==
    LET q1 == [q EXCEPT !.isBlacklisted = IF isBlacklisted THEN "true" ELSE "false"] IN
    IF isBlacklisted
    THEN [errorResponse(q1, "Token has been revoked. Please login again.", 401, NoErrors)
            EXCEPT !.user = q1.payload, !.nexted = TRUE]
    ELSE IF q1.payload.role \notin Permitted(q1.guard)
    THEN errorResponse(q1, Insufficient(q1.guard), 403, NoErrors)
    ELSE Handler([q1 EXCEPT !.user = q1.payload])

\* Mutant of GuardDecide: the guard looks the subject up in the user table and
\* rejects a deleted or deactivated account and a role that was changed.
GuardDecideReadsUsers(q, isBlacklisted) ==
    LET q1 == [q EXCEPT !.isBlacklisted = IF isBlacklisted THEN "true" ELSE "false"] IN
    IF isBlacklisted
    THEN errorResponse(q1, "Token has been revoked. Please login again.", 401, NoErrors)
    ELSE IF \/ ~db.users[q1.payload.id].present
            \/ ~db.users[q1.payload.id].isActive
            \/ db.users[q1.payload.id].role # q1.payload.role
    THEN errorResponse(q1, "Invalid or expired token", 401, NoErrors)
    ELSE IF q1.payload.role \notin Permitted(q1.guard)
    THEN errorResponse(q1, Insufficient(q1.guard), 403, NoErrors)
    ELSE Handler([q1 EXCEPT !.user = q1.payload])

\* authMiddleware and requiredAdmin once isJtiBlacklisted has returned.
GuardDecide(q, isBlacklisted) ==
    LET q1 == [q EXCEPT !.isBlacklisted = IF isBlacklisted THEN "true" ELSE "false"] IN
    IF isBlacklisted
    THEN errorResponse(q1, "Token has been revoked. Please login again.", 401, NoErrors)
    ELSE IF q1.payload.role \notin Permitted(q1.guard)
    THEN errorResponse(q1, Insufficient(q1.guard), 403, NoErrors)
    ELSE Handler([q1 EXCEPT !.user = q1.payload])

\* optionalAuthMiddleware from its start to the await of isJtiBlacklisted, or to
\* next() when there is nothing to look up (its catch calls next() too).
OptionalEnter(q, t, threw) ==
    IF threw \/ q.header = <<>> \/ Len(q.header) # 2 THEN Handler(q)
    ELSE IF q.header[1] # "Bearer" THEN Handler(q)
    ELSE LET payload == verifyToken(q.header[2], t) IN
         IF payload = NoPayload THEN Handler(q)
         ELSE [q EXCEPT !.pc = "lookup", !.payload = payload]

\* optionalAuthMiddleware once isJtiBlacklisted has returned.
OptionalDecide(q, isBlacklisted) ==
    LET q1 == [q EXCEPT !.isBlacklisted = IF isBlacklisted THEN "true" ELSE "false"] IN
    IF isBlacklisted THEN Handler(q1) ELSE Handler([q1 EXCEPT !.user = q1.payload])

\* The guard's code after `await isJtiBlacklisted(payload.jti || '')`.
Resume(q, isBlacklisted) ==
    IF q.guard = "optionalAuthMiddleware"
    THEN OptionalDecide(q, isBlacklisted)
    ELSE GuardDecide(q, isBlacklisted)

----------------------------------------------------------------------------
(* The other tables of the database *)

\* The donation the allocations are made for, and its target_amount.
Donations == {"d1"}
TargetAmount == 4

\* The tables when the service starts: the accounts, a donation without
\* allocations, no class, no announcement.
InitialDb ==
    [users |-> [u \in Accounts |-> [role |-> UserRole(u), isActive |-> IsActive(u),
                                     present |-> TRUE]],
     allocations |-> <<>>,
     classes |-> <<>>,
     announcements |-> 0]

----------------------------------------------------------------------------
(* The state after the process has started: nobody logged in, an empty table *)

Init ==
    /\ now = 0
    /\ issued = <<>>
    /\ uuidCount = 0
    /\ store = <<>>
    /\ req = [r \in Reqs |-> Idle]
    /\ purge = [s \in Purges |-> NoRun]
    /\ purged = NoPurge
    /\ loggedOut = {}
    /\ db = InitialDb

\* Time passes.
Tick ==
    /\ now < MaxNow
    /\ now' = now + 1
    /\ purged' = NoPurge
    /\ req' = Settled
    /\ UNCHANGED <<issued, uuidCount, store, purge, loggedOut, db>>

\* POST /login of an active user with the right password: a token is issued.
Login(u) ==
    /\ Len(issued) < MaxTokens
    /\ issued' = Append(issued, generateToken(u, UserRole(u), now))
    /\ uuidCount' = uuidCount + 1
    /\ req' = Settled
    /\ UNCHANGED <<now, store, purge, purged, loggedOut, db>>

\* A request arrives in a free slot and its guard runs to its first await.
Arrive(r, guard, route, header, threw) ==
    /\ Free(r)
    /\ LET q == [Idle EXCEPT !.guard = guard, !.route = route, !.header = header,
                              !.afterLogout = Len(header) = 2 /\ header[2] \in loggedOut] IN
       req' = Step(r, IF guard = "none" THEN Handler(q)
                      ELSE IF guard = "optionalAuthMiddleware"
                      THEN OptionalEnter(q, now, threw)
                      ELSE GuardEnter(q, now, threw))
    /\ UNCHANGED <<now, issued, uuidCount, store, purge, purged, loggedOut, db>>

\* router.post('/logout', authMiddleware, ...) and the other routes behind authMiddleware
authMiddleware(r, Routes, H, T) ==
    \E route \in Routes, header \in H, threw \in T :
        Arrive(r, "authMiddleware", route, header, threw)

\* router.post('/signup', requiredAdmin, ...) and the /users routes
requiredAdmin(r, H, T) ==
    \E header \in H, threw \in T :
        Arrive(r, "requiredAdmin", "/signup", header, threw)

\* optionalAuthMiddleware (exported, mounted on no route)
optionalAuthMiddleware(r, H, T) ==
    \E header \in H, threw \in T :
        Arrive(r, "optionalAuthMiddleware", "", header, threw)

\* Mutant of LookupCatch: the error of the store call reaches the guard, whose
\* own catch answers 500.
LookupRethrow(q, error) ==
    errorResponse([q EXCEPT !.logged = error], "Authentication error", 500, error)

\* isJtiBlacklisted's catch: the error is logged and false is returned.
LookupCatch(q, error) == Resume([q EXCEPT !.logged = error], FALSE)

\* A request to one of the mutating routes, through the middleware the route
\* is mounted with.
MutatingRequest(r, H) ==
    \E route \in MutatingRoutes, header \in H :
        Arrive(r, RouteGuard(route), route, header, FALSE)

\* In the store actions F holds the ways a call may go: FALSE, it answers;
\* TRUE, it throws because the store cannot be reached.
Reliable == {FALSE}
Unreliable == {FALSE, TRUE}

\* isJtiBlacklisted, first await: findUnique answers (or fails, and the catch
\* returns false); an expired row goes on to the delete, otherwise the guard resumes.
FindUnique(r, F) ==
    /\ req[r].pc = "lookup"
    /\ \E fails \in F :
         LET q == req[r]
             found == RowsOf(q.payload.jti)
         IN req' = Step(r,
              IF fails THEN LookupCatch(q, "checking: store unavailable")
              ELSE IF found = {} THEN Resume(q, FALSE)
              ELSE IF \E i \in found : IsExpired(store[i], now)
              THEN [q EXCEPT !.pc = "delete"]
              ELSE Resume(q, TRUE))
    /\ UNCHANGED <<now, issued, uuidCount, store, purge, purged, loggedOut, db>>

\* isJtiBlacklisted, second await: delete({where: {jti}}) answers. It removes the
\* row that has this jti now; with no such row (P2025), or a store failure, it
\* throws and the catch returns false.
Delete(r, F) ==
    /\ req[r].pc = "delete"
    /\ \E fails \in F :
         LET q == req[r]
             gone == RowsOf(q.payload.jti) = {}
         IN /\ store' = IF fails \/ gone THEN store ELSE DeleteWhere(q.payload.jti)
            /\ req' = Step(r,
                 IF fails THEN LookupCatch(q, "checking: store unavailable")
                 ELSE IF gone THEN LookupCatch(q, "checking: P2025")
                 ELSE Resume([q EXCEPT !.deleted = TRUE], FALSE))
    /\ UNCHANGED <<now, issued, uuidCount, purge, purged, loggedOut, db>>

\* Mutant of CreateThrows: the table has no unique index on jti.
CreateThrowsNoIndex(jti, fails) == fails

\* blacklistToken(jti, expiresAt, userId): whether create() throws (the unique
\* index on jti, or the store failing).
CreateThrows(jti, fails) == fails \/ RowsOf(jti) # {}

\* POST /logout, its await of blacklistToken: create() inserts the row, or throws
\* and blacklistToken rethrows, which the route's catch turns into a 500.
Insert(r, F) ==
    /\ req[r].pc = "insert"
    /\ \E fails \in F :
         LET q == req[r]
             token == q.header[2]
             jti == getTokenJti(token)
         IN IF CreateThrows(jti, fails)
            THEN /\ req' = Step(r,
                      errorResponse([q EXCEPT !.logged =
                                         IF fails THEN "adding: store unavailable"
                                         ELSE "adding: P2002"],
                                    "Logout failed", 500,
                                    IF fails THEN "store unavailable" ELSE "P2002"))
                 /\ UNCHANGED <<store, purged, loggedOut>>
            ELSE /\ store' = Append(store,
                        Row(jti, ToDate(getTokenExpiration(token)), q.user.id))
                 /\ req' = Step(r,
                      [q EXCEPT !.pc = "done", !.status = 200,
                                !.message = "Logout successful"])
                 /\ purged' = NoPurge
                 /\ loggedOut' = loggedOut \cup {token}
    /\ UNCHANGED <<now, issued, uuidCount, purge, db>>

\* Mutant of TimerFires: the cleanup is scheduled once, at process start, and
\* not at every interval.
TimerFiresAtStart(s) ==
    /\ now = 0
    /\ purge[s] = NoRun
    /\ purge' = [purge EXCEPT ![s] = now]
    /\ req' = Settled
    /\ UNCHANGED <<now, issued, uuidCount, store, purged, loggedOut, db>>

\* initializeBlacklist's timer fires: cleanupExpiredTokens() is called, reads the
\* clock for its cutoff and awaits deleteMany.
TimerFires(s) ==
    /\ purge[s] = NoRun
    /\ purge' = [purge EXCEPT ![s] = now]
    /\ req' = Settled
    /\ UNCHANGED <<now, issued, uuidCount, store, purged, loggedOut, db>>

\* Mutant of CleanupCatch: the error leaves cleanupExpiredTokens and reaches the
\* timer's callback.
CleanupRethrow(error) == [NoPurge EXCEPT !.logged = error, !.thrown = TRUE]

\* cleanupExpiredTokens's catch: the error is logged and nothing is thrown.
CleanupCatch(error) == [NoPurge EXCEPT !.logged = error]

\* The cleanup runs in flight besides run s.
OtherRuns(s) == Cardinality({x \in DOMAIN purge : x # s /\ purge[x] # NoRun})

\* Mutant of cleanupExpiredTokens: a deleteMany that matches no row (another run
\* took them) throws, and the error leaves the function.
cleanupThrowsOnNothing(s, F) ==
    /\ purge[s] # NoRun
    /\ \E fails \in F :
         IF fails \/ DeleteManyBefore(purge[s]) = store
         THEN /\ store' = store
              /\ purged' = CleanupRethrow("cleanup: nothing to delete")
         ELSE /\ store' = DeleteManyBefore(purge[s])
              /\ purged' = [NoPurge EXCEPT
                              !.cutoff = purge[s],
                              !.count = Len(store) - Len(DeleteManyBefore(purge[s])),
                              !.others = OtherRuns(s)]
    /\ purge' = [purge EXCEPT ![s] = NoRun]
    /\ req' = Settled
    /\ UNCHANGED <<now, issued, uuidCount, loggedOut, db>>

\* cleanupExpiredTokens, its await: deleteMany removes the rows before the cutoff,
\* or fails, which is logged and swallowed.
cleanupExpiredTokens(s, F) ==
    /\ purge[s] # NoRun
    /\ \E fails \in F :
         IF fails
         THEN /\ store' = store
              /\ purged' = CleanupCatch("cleanup: store unavailable")
         ELSE /\ store' = DeleteManyBefore(purge[s])
              /\ purged' = [NoPurge EXCEPT
                              !.cutoff = purge[s],
                              !.count = Len(store) - Len(DeleteManyBefore(purge[s])),
                              !.others = OtherRuns(s)]
    /\ purge' = [purge EXCEPT ![s] = NoRun]
    /\ req' = Settled
    /\ UNCHANGED <<now, issued, uuidCount, loggedOut, db>>

\* The running service with a store that answers: logged-in clients log out
\* concurrently with the tokens they were issued, while the clock and the
\* cleanup timer run.
Next ==
    \/ Tick
    \/ \E u \in Users : Login(u)
    \/ \E r \in Reqs : authMiddleware(r, {"/logout"}, IssuedHeaders, {FALSE})
    \/ \E r \in Reqs : FindUnique(r, Reliable)
    \/ \E r \in Reqs : Delete(r, Reliable)
    \/ \E r \in Reqs : Insert(r, Reliable)
    \/ \E s \in Purges : TimerFires(s)
    \/ \E s \in Purges : cleanupExpiredTokens(s, Reliable)

Spec == Init /\ [][Next]_vars

\* One request at a time, with any header at all, a guard that may throw and a
\* store that may fail.
NextGuard ==
    \/ Tick
    \/ \E u \in Users : Login(u)
    \/ authMiddleware(1, {"/logout", "/students"}, Headers, BOOLEAN)
    \/ requiredAdmin(1, Headers, BOOLEAN)
    \/ optionalAuthMiddleware(1, Headers, BOOLEAN)
    \/ FindUnique(1, Unreliable)
    \/ Delete(1, Unreliable)
    \/ Insert(1, Unreliable)

SpecGuard == Init /\ [][NextGuard]_vars

\* Mutant of OwnedBy: every row is taken for the user's.
OwnedByAnyone(row, userId) == TRUE

\* {where: {userId}}
OwnedBy(row, userId) == row.userId = userId

\* The table after deleteMany({where: {userId}}).
DeleteManyOf(userId) == SelectSeq(store, LAMBDA row : ~OwnedBy(row, userId))

\* userId || null: a row without an owner.
NoOwner == ""

\* blacklistToken(jti, expiresAt, userId?) called directly (an explicit
\* revocation, with or without an owner): the row is inserted, or create()
\* throws and the error goes to the caller.
blacklistToken(token, userId, F) ==
    /\ \E fails \in F :
         store' = IF CreateThrows(getTokenJti(token), fails) THEN store
                  ELSE Append(store, Row(getTokenJti(token),
                                         ToDate(getTokenExpiration(token)), userId))
    /\ purged' = NoPurge
    /\ req' = Settled
    /\ UNCHANGED <<now, issued, uuidCount, purge, loggedOut, db>>

\* A caller of blacklistToken other than POST /logout: any issued token, with
\* any owner or none.
ExplicitRevocation(F) ==
    \E t \in Range(issued), u \in Users \cup {NoOwner} : blacklistToken(t, u, F)

\* revokeUserTokens(userId): deleteMany of the user's rows; result.count is
\* returned, or 0 when the store fails (the error is logged).
revokeUserTokens(userId, F) ==
    /\ \E fails \in F :
         IF fails
         THEN /\ store' = store
              /\ purged' = [NoPurge EXCEPT !.userId = userId,
                                           !.logged = "revoking: store unavailable"]
         ELSE /\ store' = DeleteManyOf(userId)
              /\ purged' = [NoPurge EXCEPT !.userId = userId,
                                           !.count = Len(store) - Len(DeleteManyOf(userId))]
    /\ req' = Settled
    /\ UNCHANGED <<now, issued, uuidCount, purge, loggedOut, db>>

\* clearBlacklist(): deleteMany({}) empties the table; a failure is logged only.
clearBlacklist(F) ==
    /\ store # <<>>
    /\ \E fails \in F : store' = IF fails THEN store ELSE <<>>
    /\ purged' = NoPurge
    /\ req' = Settled
    /\ UNCHANGED <<now, issued, uuidCount, purge, loggedOut, db>>

\* The blacklist service called through all of its exports: logouts, explicit
\* revocations with and without an owner, and revokeUserTokens.
NextRevoke ==
    \/ Tick
    \/ \E u \in Users : Login(u)
    \/ authMiddleware(1, {"/logout", "/students"}, IssuedHeaders, {FALSE})
    \/ FindUnique(1, Reliable)
    \/ Delete(1, Reliable)
    \/ Insert(1, Reliable)
    \/ ExplicitRevocation(Reliable)
    \/ \E u \in Users : revokeUserTokens(u, Unreliable)
    \/ clearBlacklist(Reliable)

SpecRevoke == Init /\ [][NextRevoke]_vars

\* The passwords of the accounts (an account's email stands for the account).
Password(u) == IF u = "u1" THEN "pw-of-u1" ELSE IF u = "u2" THEN "pw-of-u2" ELSE "pw-of-u3"

\* bcrypt: the stored hash of a password, and bcrypt.compare.
BcryptHash(password) == <<"bcrypt", password>>
BcryptCompare(password, hash) == hash = BcryptHash(password)

\* loginSchema.parse: an email address and a password of 6 characters or more.
LoginEmails == Accounts \cup {"nobody", "not-an-email"}
LoginPasswords == {Password(u) : u \in Accounts} \cup {"short"}
ZodAccepts(email, password) == email # "not-an-email" /\ password # "short"

\* Mutant of loginOutcome: an unknown email is told apart from a wrong password.
loginOutcomeTellsUnknown(email, password, fails) ==
    LET Answer(status, message, errors, id) ==
            [status |-> status, message |-> message, errors |-> errors, id |-> id]
    IN IF ~ZodAccepts(email, password) THEN Answer(400, "Validation failed", "zod issues", "")
       ELSE IF fails THEN Answer(500, "Login failed", "store unavailable", "")
       ELSE IF email \notin Accounts THEN Answer(401, "Unknown email", NoErrors, "")
       ELSE IF ~IsActive(email) THEN Answer(403, "User account is inactive", NoErrors, "")
       ELSE IF ~BcryptCompare(password, BcryptHash(Password(email)))
       THEN Answer(401, "Invalid email or password", NoErrors, "")
       ELSE Answer(200, "Login successful", NoErrors, email)

\* POST /login up to its response: the status, the message, the errors field
\* and the user a token is generated for ("" for none).
loginOutcome(email, password, fails) ==
    LET Answer(status, message, errors, id) ==
            [status |-> status, message |-> message, errors |-> errors, id |-> id]
    IN IF ~ZodAccepts(email, password) THEN Answer(400, "Validation failed", "zod issues", "")
       ELSE IF fails THEN Answer(500, "Login failed", "store unavailable", "")
       ELSE IF email \notin Accounts THEN Answer(401, "Invalid email or password", NoErrors, "")
       ELSE IF ~IsActive(email) THEN Answer(403, "User account is inactive", NoErrors, "")
       ELSE IF ~BcryptCompare(password, BcryptHash(Password(email)))
       THEN Answer(401, "Invalid email or password", NoErrors, "")
       ELSE Answer(200, "Login successful", NoErrors, email)

\* POST /login with any body: the response is sent, and a token is issued when
\* the outcome says so.
PostLogin(r, F) ==
    \E email \in LoginEmails, password \in LoginPasswords, fails \in F :
        LET o == loginOutcome(email, password, fails) IN
        /\ Free(r)
        /\ o.id # "" => Len(issued) < MaxTokens
        /\ req' = Step(r, [Idle EXCEPT !.pc = "done", !.route = "/login",
                                       !.body = <<email, password>>,
                                       !.status = o.status, !.message = o.message,
                                       !.errors = o.errors])
        /\ issued' = IF o.id = "" THEN issued
                     ELSE Append(issued, generateToken(o.id, UserRole(o.id), now))
        /\ uuidCount' = IF o.id = "" THEN uuidCount ELSE uuidCount + 1
        /\ UNCHANGED <<now, store, purge, purged, loggedOut, db>>

\* Logins of every kind, and the tokens they issue in use.
NextLogin ==
    \/ Tick
    \/ PostLogin(1, Unreliable)
    \/ authMiddleware(1, {"/students"}, IssuedHeaders, {FALSE})
    \/ FindUnique(1, Reliable)

SpecLogin == Init /\ [][NextLogin]_vars

\* The headers of the callers of the mutating routes: none, a forged token, an
\* issued token.
CallerHeaders == {<<>>, <<"Bearer", Garbage>>} \cup IssuedHeaders

\* The service seen from its mutating routes, with logouts going on.
NextRoutes ==
    \/ Tick
    \/ \E u \in Users : Login(u)
    \/ MutatingRequest(1, CallerHeaders)
    \/ authMiddleware(1, {"/logout"}, IssuedHeaders, {FALSE})
    \/ FindUnique(1, Reliable)
    \/ Delete(1, Reliable)
    \/ Insert(1, Reliable)

SpecRoutes == Init /\ [][NextRoutes]_vars

\* The service with one request at a time and the cleanup timer, for as long as
\* the process lives: setInterval fires at every interval (a run that is not in
\* flight is started again) and the store answers every deleteMany.
NextLive ==
    \/ Tick
    \/ \E u \in Users : Login(u)
    \/ authMiddleware(1, {"/logout"}, IssuedHeaders, {FALSE})
    \/ FindUnique(1, Reliable)
    \/ Delete(1, Reliable)
    \/ Insert(1, Reliable)
    \/ \E s \in Purges : TimerFires(s)
    \/ \E s \in Purges : cleanupExpiredTokens(s, Reliable)

TimerKeepsFiring ==
    \A s \in Purges : WF_vars(TimerFires(s)) /\ WF_vars(cleanupExpiredTokens(s, Reliable))

SpecLive == Init /\ [][NextLive]_vars /\ TimerKeepsFiring

\* The same service with a store that may fail the purge's deleteMany.
NextPurgeFails ==
    \/ Tick
    \/ \E u \in Users : Login(u)
    \/ authMiddleware(1, {"/logout"}, IssuedHeaders, {FALSE})
    \/ FindUnique(1, Reliable)
    \/ Delete(1, Reliable)
    \/ Insert(1, Reliable)
    \/ \E s \in Purges : TimerFires(s)
    \/ \E s \in Purges : cleanupExpiredTokens(s, Unreliable)

SpecPurgeFails == Init /\ [][NextPurgeFails]_vars

----------------------------------------------------------------------------
(* routes/donations.ts: the allocations of a donation *)

\* A field the request body does not have (undefined).
Absent == -1

\* Math.round(n / d) for n >= 0 and d > 0: halves go up.
Round(n, d) == (2 * n + d) \div (2 * d)

\* a ?? b
Coalesce(a, b) == IF a = Absent THEN b ELSE a

\* The sum of the percents of a sequence of allocations (reduce, from 0).
RECURSIVE SumPercent(_)
SumPercent(allocations) ==
    IF allocations = <<>> THEN 0
    ELSE allocations[1].percent + SumPercent(Tail(allocations))

\* What a client may send as one allocation: an amount, and a percent or none.
AmountInputs == {0, 1}
PercentInputs == {Absent, 60, 100, 101}
AllocationInputs == {[amount |-> a, percent |-> p] : a \in AmountInputs, p \in PercentInputs}

\* The bodies of POST /:id/allocations: arrays of up to MaxBatch allocations.
MaxBatch == 2
AllocationBatches ==
    UNION {[1..n -> AllocationInputs] : n \in 0..MaxBatch}

\* createDonationAllocationSchema, one item: amount a positive integer, percent
\* an integer of 0..100 or absent.
ZodAllocation(item) ==
    /\ item.amount > 0
    /\ item.percent = Absent \/ item.percent \in 0..100

\* What parse returns for an accepted item: .optional().default(0) puts 0 in
\* the place of an absent percent.
ParsedAllocation(item) == [item EXCEPT !.percent = IF @ = Absent THEN 0 ELSE @]

\* allocationsInput.map(...): the rows to store for a parsed body.
NewAllocations(donation_id, allocationsInput) ==
    [k \in 1..Len(allocationsInput) |->
        [donation_id |-> donation_id,
         amount |-> allocationsInput[k].amount,
         percent |-> Coalesce(allocationsInput[k].percent,
                              Round(allocationsInput[k].amount * 100, TargetAmount))]]

\* The allocation table holds at most this many rows in the model.
MaxAllocations == 2

\* The response of a handler that is followed from its first statement to its
\* response in one step.
Answered(route, body, status, message) ==
    [Idle EXCEPT !.pc = "done", !.route = route, !.body = body, !.nexted = TRUE,
                 !.status = status, !.message = message]

\* POST /:id/allocations once authMiddleware has admitted the request.
PostAllocations(r) ==
    \E id \in Donations \cup {"d404"}, input \in AllocationBatches :
        LET route == "POST /donations/:id/allocations"
            allocationsInput == [k \in 1..Len(input) |-> ParsedAllocation(input[k])]
            allocations == NewAllocations(id, allocationsInput)
            answer ==
                IF \E k \in 1..Len(input) : ~ZodAllocation(input[k])
                THEN Answered(route, <<id, input>>, 400, "Validation failed")
                ELSE IF id \notin Donations
                THEN Answered(route, <<id, input>>, 404, "Donation not found")
                ELSE IF SumPercent(allocations) > 100
                THEN Answered(route, <<id, input>>, 400,
                              "Total allocation percent cannot exceed 100%")
                ELSE Answered(route, <<id, input>>, 201,
                              "Donation allocations created successfully")
        IN /\ Free(r)
           /\ Len(db.allocations) + Len(input) <= MaxAllocations
           /\ req' = Step(r, answer)
           /\ db' = IF answer.status = 201
                    THEN [db EXCEPT !.allocations = @ \o allocations]
                    ELSE db
           /\ UNCHANGED <<now, issued, uuidCount, store, purge, purged, loggedOut>>

\* updateDonationAllocationSchema: every field optional.
ZodAllocationUpdate(body) ==
    /\ body.amount = Absent \/ body.amount > 0
    /\ body.percent = Absent \/ body.percent \in 0..100

\* The bodies of PUT /:donationId/allocations/:allocationId.
AllocationUpdates ==
    {[amount |-> a, percent |-> p] : a \in AmountInputs \cup {Absent}, p \in PercentInputs}

\* PUT /:donationId/allocations/:allocationId once authMiddleware has admitted
\* the request; the allocation's id is its place in the table.
PutAllocation(r) ==
    \E id \in Donations \cup {"d404"}, allocationId \in 1..MaxAllocations,
       body \in AllocationUpdates :
        LET route == "PUT /donations/:id/allocations/:id"
            found == allocationId \in 1..Len(db.allocations)
            allocation == db.allocations[allocationId]
            percent == Coalesce(body.percent,
                                IF body.amount # Absent
                                THEN Round(body.amount * 100, TargetAmount)
                                ELSE allocation.percent)
            answer ==
                IF ~ZodAllocationUpdate(body)
                THEN Answered(route, <<id, allocationId, body>>, 400, "Validation failed")
                ELSE IF ~found
                THEN Answered(route, <<id, allocationId, body>>, 404,
                              "Donation allocation not found")
                ELSE IF id \notin Donations
                THEN Answered(route, <<id, allocationId, body>>, 404, "Donation not found")
                ELSE Answered(route, <<id, allocationId, body>>, 200,
                              "Donation allocation updated successfully")
        IN /\ Free(r)
           /\ req' = Step(r, answer)
           /\ db' = IF answer.status = 200
                    THEN [db EXCEPT !.allocations[allocationId] =
                             [@ EXCEPT !.amount = Coalesce(body.amount, @),
                                       !.percent = percent]]
                    ELSE db
           /\ UNCHANGED <<now, issued, uuidCount, store, purge, purged, loggedOut>>

\* The allocations of a donation, created and updated by admitted requests.
NextAllocations ==
    \/ PostAllocations(1)
    \/ PutAllocation(1)

SpecAllocations == Init /\ [][NextAllocations]_vars

----------------------------------------------------------------------------
(* The list endpoints: GET /users and GET /announcements *)

\* A value of req.query: the parameter is absent, is a text that is no number,
\* or is the decimal text of an integer.
QueryNumbers == {-1, 0, 1, 2, 3, 101}
QueryInputs ==
    {[kind |-> "absent", n |-> 0], [kind |-> "text", n |-> 0]}
      \cup {[kind |-> "number", n |-> n] : n \in QueryNumbers}

\* Number(q) || default: NaN (an absent or non-numeric value) and 0 are falsy.
NumberOr(q, default) == IF q.kind # "number" \/ q.n = 0 THEN default ELSE q.n

MathMax(a, b) == IF a >= b THEN a ELSE b
MathMin(a, b) == IF a <= b THEN a ELSE b

\* const page = Math.max(Number(req.query.page) || 1, 1)
PageOf(q) == MathMax(NumberOr(q, 1), 1)

\* const limit = Math.min(Math.max(Number(req.query.limit) || 10, 1), 100)
LimitOf(q) == MathMin(MathMax(NumberOr(q, 10), 1), 100)

\* Mutant of MathCeil: the quotient is rounded down.
MathFloor(n, d) == n \div d

\* Math.ceil(n / d) for n >= 0 and d > 0.
MathCeil(n, d) == (n + d - 1) \div d

\* paginatedResponse's pagination object.
paginatedResponse(page, limit, totalItems) ==
    LET totalPages == MathCeil(totalItems, limit) IN
    [page |-> page, limit |-> limit, totalItems |-> totalItems,
     totalPages |-> totalPages,
     hasNextPage |-> page < totalPages,
     hasPrevPage |-> page > 1]

\* A list handler from its first statement to its response: count(), the 404
\* of an empty table, otherwise findMany and the page with its metadata.
ListHandler(route, query, totalItems, empty, fetched) ==
    IF totalItems = 0
    THEN Answered(route, query, 404, empty)
    ELSE [Answered(route, query, 200, fetched) EXCEPT
             !.pagination = paginatedResponse(PageOf(query[1]), LimitOf(query[2]),
                                              totalItems)]

\* prisma.user.count()
UserCount == Cardinality({u \in Accounts : db.users[u].present})

\* GET /users once requiredAdmin has admitted the request.
GetUsers(r) ==
    \E page \in QueryInputs, limit \in QueryInputs :
        /\ Free(r)
        /\ req' = Step(r, ListHandler("GET /users", <<page, limit>>, UserCount,
                                      "No users found", "Users fetch successfully"))
        /\ UNCHANGED <<now, issued, uuidCount, store, purge, purged, loggedOut, db>>

\* GET /announcements (no guard).
GetAnnouncements(r) ==
    \E page \in QueryInputs, limit \in QueryInputs :
        /\ Free(r)
        /\ req' = Step(r, ListHandler("GET /announcements", <<page, limit>>,
                                      db.announcements, "No announcements found",
                                      "Announcements fetched successfully"))
        /\ UNCHANGED <<now, issued, uuidCount, store, purge, purged, loggedOut, db>>

\* The announcements table holds at most this many rows in the model.
MaxItems == 3

\* POST /announcements once authMiddleware has admitted the request, with a
\* body createAnnouncementSchema accepts.
PostAnnouncement(r) ==
    /\ Free(r)
    /\ db.announcements < MaxItems
    /\ req' = Step(r, Answered("POST /announcements", <<>>, 200,
                               "Announcement created successfully"))
    /\ db' = [db EXCEPT !.announcements = @ + 1]
    /\ UNCHANGED <<now, issued, uuidCount, store, purge, purged, loggedOut>>

\* DELETE /announcements/:id once authMiddleware has admitted the request, for
\* an announcement that exists.
DeleteAnnouncement(r) ==
    /\ Free(r)
    /\ db.announcements > 0
    /\ req' = Step(r, Answered("DELETE /announcements/:id", <<>>, 200,
                               "Announcement deleted successfully"))
    /\ db' = [db EXCEPT !.announcements = @ - 1]
    /\ UNCHANGED <<now, issued, uuidCount, store, purge, purged, loggedOut>>

\* DELETE /users/:id once requiredAdmin has admitted the request: the row is
\* deleted, or delete() throws (no such row) and the catch answers 500.
DeleteUser(r, Ids) ==
    \E id \in Ids :
        /\ Free(r)
        /\ req' = Step(r, IF db.users[id].present
                          THEN Answered("DELETE /users/:id", <<id>>, 200, "userDeleted")
                          ELSE Answered("DELETE /users/:id", <<id>>, 500,
                                        "Failed to fetch users"))
        /\ db' = [db EXCEPT !.users[id].present = FALSE]
        /\ UNCHANGED <<now, issued, uuidCount, store, purge, purged, loggedOut>>

\* The list endpoints, with the tables growing and shrinking.
NextLists ==
    \/ GetUsers(1)
    \/ GetAnnouncements(1)
    \/ PostAnnouncement(1)
    \/ DeleteAnnouncement(1)
    \/ DeleteUser(1, Accounts)

SpecLists == Init /\ [][NextLists]_vars

----------------------------------------------------------------------------
(* Overlapping cleanup runs: setInterval starts a run whether or not the   *)
(* last one has returned                                                    *)

\* The cleanup runs that may be in flight at once.
MaxOverlap == 2
Runs == 1..MaxOverlap

\* The service at start, with room for MaxOverlap runs of the cleanup.
InitOverlap ==
    /\ now = 0
    /\ issued = <<>>
    /\ uuidCount = 0
    /\ store = <<>>
    /\ req = [r \in Reqs |-> Idle]
    /\ purge = [s \in Runs |-> NoRun]
    /\ purged = NoPurge
    /\ loggedOut = {}
    /\ db = InitialDb

\* Logouts one at a time, the clock, and cleanup runs that overlap.
NextOverlap ==
    \/ Tick
    \/ \E u \in Users : Login(u)
    \/ authMiddleware(1, {"/logout"}, IssuedHeaders, {FALSE})
    \/ FindUnique(1, Reliable)
    \/ Delete(1, Reliable)
    \/ Insert(1, Reliable)
    \/ \E s \in Runs : TimerFires(s)
    \/ \E s \in Runs : cleanupExpiredTokens(s, Reliable)

SpecOverlap == InitOverlap /\ [][NextOverlap]_vars

----------------------------------------------------------------------------
(* The user table: PUT /users/:id, DELETE /users/:id and the logins that   *)
(* read it                                                                  *)

\* A field the body of PUT /users/:id does not have.
Undefined == "undefined"

\* The bodies of PUT /users/:id, by the fields the guard or the login read.
UserUpdates ==
    [role : {Undefined, "admin", "operator", "owner"},
     isActive : {Undefined, "true", "false"}]

\* updateUserSchema: role is one of the UserRole values.
ZodUser(body) == body.role \in {Undefined, "admin", "operator"}

\* PUT /users/:id once requiredAdmin has admitted the request: the fields of
\* the body replace the row's (an undefined field is left as it is); update()
\* of a row that does not exist throws and the catch answers 500.
PutUser(r, Ids) ==
    \E id \in Ids, body \in UserUpdates :
        LET route == "PUT /users/:id"
            answer == IF ~ZodUser(body)
                      THEN Answered(route, <<id, body>>, 400, "validation failed")
                      ELSE IF ~db.users[id].present
                      THEN Answered(route, <<id, body>>, 500, "Failed to fetch users")
                      ELSE Answered(route, <<id, body>>, 200, "User update successfully")
        IN /\ Free(r)
           /\ req' = Step(r, answer)
           /\ db' = IF answer.status # 200 THEN db
                    ELSE [db EXCEPT
                            !.users[id].role = IF body.role = Undefined THEN @ ELSE body.role,
                            !.users[id].isActive = IF body.isActive = Undefined THEN @
                                                   ELSE body.isActive = "true"]
           /\ UNCHANGED <<now, issued, uuidCount, store, purge, purged, loggedOut>>

\* POST /login of account u with its password, against the user table as it
\* is now: the token carries the role the row has at this moment.
LoginAccount(u) ==
    /\ Len(issued) < MaxTokens
    /\ db.users[u].present
    /\ db.users[u].isActive
    /\ issued' = Append(issued, generateToken(u, db.users[u].role, now))
    /\ uuidCount' = uuidCount + 1
    /\ req' = Settled
    /\ UNCHANGED <<now, store, purge, purged, loggedOut, db>>

\* The account the admins change and delete.
Managed == {"u1"}

\* Admins change and delete an account while the tokens issued to it and to
\* another account are in use.
NextUsers ==
    \/ Tick
    \/ \E u \in Users : LoginAccount(u)
    \/ PutUser(1, Managed)
    \/ DeleteUser(1, Managed)
    \/ authMiddleware(1, {"/logout", "/students"}, IssuedHeaders, {FALSE})
    \/ requiredAdmin(1, IssuedHeaders, {FALSE})
    \/ FindUnique(1, Reliable)
    \/ Delete(1, Reliable)
    \/ Insert(1, Reliable)

SpecUsers == Init /\ [][NextUsers]_vars

----------------------------------------------------------------------------
(* routes/classes.ts: POST /classes and PUT /classes/:id *)

\* What a client may send for the ages and the dates of a class (a date is a
\* day number; z.coerce.date() makes a Date of it).
AgeInputs == {0, 2}
DateInputs == {0, 1}

\* The bodies of POST /classes, by their age and date fields.
ClassInputs ==
    [min_age : AgeInputs, max_age : AgeInputs,
     started_at : DateInputs, ended_at : DateInputs]

\* The bodies of PUT /classes/:id: every field may be absent.
ClassUpdates ==
    [min_age : AgeInputs \cup {Absent}, max_age : AgeInputs \cup {Absent},
     started_at : DateInputs \cup {Absent}, ended_at : DateInputs \cup {Absent}]

\* createClassSchema and its two refinements.
ZodClass(data) ==
    /\ data.min_age >= 0
    /\ data.max_age >= 0
    /\ data.min_age <= data.max_age
    /\ data.started_at < data.ended_at

\* updateClassSchema: a refinement is applied only when both members of its
\* pair are in the body.
ZodClassUpdate(data) ==
    /\ data.min_age = Absent \/ data.min_age >= 0
    /\ data.max_age = Absent \/ data.max_age >= 0
    /\ data.min_age = Absent \/ data.max_age = Absent \/ data.min_age <= data.max_age
    /\ data.started_at = Absent \/ data.ended_at = Absent \/ data.started_at < data.ended_at

\* The classes table holds at most this many rows in the model.
MaxClasses == 1

\* POST /classes once authMiddleware has admitted the request.
PostClass(r) ==
    \E data \in ClassInputs :
        /\ Free(r)
        /\ Len(db.classes) < MaxClasses
        /\ req' = Step(r, IF ZodClass(data)
                          THEN Answered("POST /classes", <<data>>, 201, "Class created")
                          ELSE Answered("POST /classes", <<data>>, 400, "Validation failed"))
        /\ db' = IF ZodClass(data) THEN [db EXCEPT !.classes = Append(@, data)] ELSE db
        /\ UNCHANGED <<now, issued, uuidCount, store, purge, purged, loggedOut>>

\* prisma.classes.update({where, data}): the fields of data replace the row's,
\* an undefined field is left as it is.
UpdatedClass(cls, data) ==
    [min_age |-> Coalesce(data.min_age, cls.min_age),
     max_age |-> Coalesce(data.max_age, cls.max_age),
     started_at |-> Coalesce(data.started_at, cls.started_at),
     ended_at |-> Coalesce(data.ended_at, cls.ended_at)]

\* PUT /classes/:id once authMiddleware has admitted the request; the class's
\* id is its place in the table, and update() of a row that does not exist
\* throws, which the catch answers 500.
PutClass(r) ==
    \E id \in 1..MaxClasses, data \in ClassUpdates :
        LET route == "PUT /classes/:id"
            answer == IF ~ZodClassUpdate(data)
                      THEN Answered(route, <<id, data>>, 400, "Validation failed")
                      ELSE IF id \notin 1..Len(db.classes)
                      THEN Answered(route, <<id, data>>, 500, "Failed to fetch allocations")
                      ELSE Answered(route, <<id, data>>, 200, "Class updated")
        IN /\ Free(r)
           /\ req' = Step(r, answer)
           /\ db' = IF answer.status = 200
                    THEN [db EXCEPT !.classes[id] = UpdatedClass(@, data)]
                    ELSE db
           /\ UNCHANGED <<now, issued, uuidCount, store, purge, purged, loggedOut>>

\* Classes created and updated by admitted requests.
NextClasses ==
    \/ PostClass(1)
    \/ PutClass(1)

SpecClasses == Init /\ [][NextClasses]_vars

----------------------------------------------------------------------------
(* What the claims speak of *)

Guarded == {"authMiddleware", "requiredAdmin"}

\* The table holds a row for jti whose expiry is not in the past.
LiveRow(jti) == \E i \in 1..Len(store) : store[i].jti = jti /\ ~(now > store[i].expiresAt)

\* The table holds a row for jti whose expiry is in the past.
StaleRow(jti) == \E i \in 1..Len(store) : store[i].jti = jti /\ now > store[i].expiresAt

\* Request r's findUnique answers in this step.
Looked(r) == req[r].pc = "lookup" /\ req'[r].pc # "lookup"

\* The header has the shape "Bearer <token>".
WellFormed(h) == Len(h) = 2 /\ h[1] = "Bearer"

----------------------------------------------------------------------------
\* C1: in every reachable state, a guard whose revocation lookup runs while the
\* table holds an unexpired row for the token's jti neither calls next() with
\* the claim nor attaches the claim to the request.
C1_RevokedNeverAdmitted ==
    [][\A r \in Reqs :
         (Looked(r) /\ LiveRow(req[r].payload.jti))
            => /\ req'[r].user = NoPayload
               /\ req[r].guard \in Guarded => ~req'[r].nexted]_vars

\* C2: a request whose revocation lookup failed in the store ends with status
\* 500 and is never admitted.
C2_StoreFailureRejects ==
    \A r \in Reqs :
        (req[r].guard \in Guarded /\ req[r].logged = "checking: store unavailable")
            => /\ ~req[r].nexted
               /\ req[r].pc = "done"
               /\ req[r].status = 500

\* The message of the first check of the guard that a request fails, the checks
\* taken in the order header present, header well formed, token verifies.
FirstFailure(q) ==
    IF q.header = <<>> THEN "Missing authorization header"
    ELSE IF ~WellFormed(q.header) THEN "Invalid authorization header format. Expected: Bearer <token>"
    ELSE IF verifyToken(q.header[2], now) = NoPayload THEN "Invalid or expired token"
    ELSE ""

\* C3: the guard reports the first failing check in the order missing header,
\* malformed header, verify failure, revoked, insufficient role: a request the
\* lookup reports revoked is answered 401 "revoked" whatever its role, a role
\* outside the permitted set is reported only after the lookup said not revoked,
\* and only a well-formed header whose token verified reaches the table.
C3_ChecksInOrder ==
    \A r \in Reqs :
        LET q == req[r] IN
        q.guard \in Guarded =>
          /\ (q.pc \in {"lookup", "delete"} \/ q.isBlacklisted # "pending")
                => /\ WellFormed(q.header)
                   /\ q.payload # NoPayload
                   /\ q.payload = decodeToken(q.header[2])
          /\ (q.pc = "done" /\ q.isBlacklisted = "pending" /\ q.status # 500)
                => /\ FirstFailure(q) # ""
                   /\ q.message = FirstFailure(q)
          /\ q.isBlacklisted = "true"
                => /\ q.pc = "done"
                   /\ q.message = "Token has been revoked. Please login again."
                   /\ q.status = 401
          /\ (q.pc = "done" /\ q.message = Insufficient(q.guard))
                => q.isBlacklisted = "false"

\* C3's case: an operator's revoked token on the admin-only guard is answered
\* 401 "revoked".
C3_Witness ==
    \E r \in Reqs :
        /\ req[r].guard = "requiredAdmin"
        /\ req[r].payload.role = "operator"
        /\ req[r].isBlacklisted = "true"
        /\ req[r].logged = ""
        /\ req[r].status = 401

\* C4: the status of each outcome, for both guards: 401 for a missing header, a
\* malformed header, a token that does not verify and a revoked token; 403 for a
\* role outside the permitted set (an operator on requiredAdmin), while
\* authMiddleware admits admin and operator; 500 for an internal error.
C4_StatusCodes ==
    \A r \in Reqs :
        LET q == req[r] IN
        (q.guard \in Guarded /\ q.pc = "done" /\ ~q.nexted) =>
          /\ q.message \in {"Missing authorization header",
                            "Invalid authorization header format. Expected: Bearer <token>",
                            "Invalid or expired token",
                            "Token has been revoked. Please login again."} <=> q.status = 401
          /\ q.message = Insufficient(q.guard) <=> q.status = 403
          /\ q.message = "Authentication error" <=> q.status = 500
          /\ (q.isBlacklisted = "pending" /\ q.status # 500) => q.status = 401
          /\ q.isBlacklisted = "true" => q.status = 401
          /\ q.isBlacklisted = "false"
                => /\ q.status = 403
                   /\ q.guard = "requiredAdmin"
                   /\ q.payload.role = "operator"

\* C4, the admitted side: a token the lookup reports not revoked is admitted by
\* authMiddleware for both roles and by requiredAdmin for an admin, with the
\* verified claim attached.
C4_Admits ==
    \A r \in Reqs :
        LET q == req[r] IN
        (q.guard \in Guarded /\ q.isBlacklisted = "false"
           /\ (q.guard = "authMiddleware" \/ q.payload.role = "admin"))
            => q.nexted /\ q.user = q.payload /\ q.status \notin {401, 403}

\* C4, the admin-only guard: an operator's token the lookup reports not revoked
\* is answered 403 and goes no further.
C4_OperatorOnAdmin ==
    \A r \in Reqs :
        LET q == req[r] IN
        (q.guard = "requiredAdmin" /\ q.isBlacklisted = "false"
           /\ q.payload.role = "operator")
            => q.pc = "done" /\ q.status = 403 /\ ~q.nexted /\ q.user = NoPayload

C4_GuardOutcomes == C4_StatusCodes /\ C4_Admits /\ C4_OperatorOnAdmin

\* C4's case: an operator's unrevoked token on requiredAdmin is answered 403.
C4_Witness ==
    \E r \in Reqs :
        /\ req[r].guard = "requiredAdmin"
        /\ req[r].payload.role = "operator"
        /\ req[r].isBlacklisted = "false"
        /\ req[r].status = 403

\* C5: while the table holds an unexpired row for j, isJtiBlacklisted(j) returns
\* true: only the expiry passing or the row's deletion makes it return false.
C5_RevokedUntilExpiryOrDelete ==
    [][\A r \in Reqs :
         (Looked(r) /\ LiveRow(req[r].payload.jti))
            => req'[r].isBlacklisted = "true"]_vars

\* C6: isJtiBlacklisted(j) that finds a row past its expiry returns false and
\* leaves no row for j in the table (the lazy delete, with no purge needed); one
\* that finds an unexpired row returns true and deletes nothing; one that finds
\* no row returns false and changes nothing.
C6_LazyDelete ==
    [][\A r \in Reqs :
         LET j == req[r].payload.jti IN
         /\ Looked(r) =>
              /\ store' = store
              /\ RowsOf(j) = {} => req'[r].isBlacklisted = "false"
              /\ LiveRow(j) => req'[r].isBlacklisted = "true"
              /\ StaleRow(j) => req'[r].pc = "delete"
         /\ (req[r].pc = "delete" /\ req'[r].pc # "delete") =>
              /\ req'[r].isBlacklisted = "false"
              /\ \A i \in 1..Len(store') : store'[i].jti # j
              /\ store' = SelectSeq(store, LAMBDA row : row.jti # j)]_vars

\* C6's case: a lookup that found an expired row has deleted it and returned false.
C6_Witness ==
    \E r \in Reqs :
        /\ req[r].deleted
        /\ req[r].isBlacklisted = "false"
        /\ RowsOf(req[r].payload.jti) = {}

\* Cleanup run s gets its answer from deleteMany in this step.
Purged(s) == purge[s] # NoRun /\ purge'[s] = NoRun

\* C7: cleanupExpiredTokens removes exactly the rows whose expiry is strictly
\* before the time of the call and leaves the others as they are; a second call
\* with no insert and no clock advance in between removes 0 rows.
C7_PurgeExact ==
    [][\A s \in Purges :
         Purged(s) =>
           /\ store' = SelectSeq(store, LAMBDA row : ~(row.expiresAt < purge[s]))
           /\ purged'.cutoff = purge[s]
           /\ purged'.count = Len(store) - Len(store')
           /\ purged.cutoff = purge[s] => purged'.count = 0 /\ store' = store]_vars

\* C7's case: a purge has removed a row and left another one in the table, and
\* a second call, made with no insert and no tick since, awaits its deleteMany.
C7_Witness ==
    /\ purged.count > 0
    /\ Len(store) > 0
    /\ \E s \in Purges : purge[s] = purged.cutoff

\* The table holds at most one row per jti.
UniqueJti == \A i, k \in 1..Len(store) : store[i].jti = store[k].jti => i = k

\* C8: blacklistToken(j, ...) with a row for j in the table fails with the
\* conflict, which reaches the caller (POST /logout answers 500), and leaves the
\* table as it is; the table never holds two rows for one jti.
C8_Conflict ==
    /\ []UniqueJti
    /\ [][\A r \in Reqs :
            (req[r].pc = "insert" /\ req'[r].pc # "insert"
               /\ RowsOf(getTokenJti(req[r].header[2])) # {})
              => /\ store' = store
                 /\ req'[r].logged = "adding: P2002"
                 /\ req'[r].status = 500
                 /\ req'[r].message = "Logout failed"]_vars

\* C8's case: a second logout of the same token has met the row of the first.
C8_Witness ==
    \E r \in Reqs :
        /\ req[r].logged = "adding: P2002"
        /\ req[r].status = 500
        /\ RowsOf(req[r].payload.jti) # {}

\* C9: a token generateToken returned for a user verifies, at any time before
\* its expiry, to a claim with that user's id and role and with a jti; and no
\* row for that jti is in the table (isJtiBlacklisted is false) until the token
\* is revoked.
C9_IssueVerify ==
    \A i \in 1..Len(issued) :
        LET t == issued[i] IN
        /\ now < t.payload.exp * MsPerSec =>
             /\ verifyToken(t, now) = t.payload
             /\ verifyToken(t, now).id \in Users
             /\ verifyToken(t, now).role = UserRole(verifyToken(t, now).id)
             /\ verifyToken(t, now).jti # 0
        /\ t \notin loggedOut =>
             /\ RowsOf(t.payload.jti) = {}
             /\ \A r \in Reqs :
                  req[r].header = <<"Bearer", t>> => req[r].isBlacklisted # "true"

\* C9's case: a token that was never revoked has been looked up, before its
\* expiry, and found not revoked.
C9_Witness ==
    \E i \in 1..Len(issued), r \in Reqs :
        /\ issued[i] \notin loggedOut
        /\ now < issued[i].payload.exp * MsPerSec
        /\ req[r].header = <<"Bearer", issued[i]>>
        /\ req[r].isBlacklisted = "false"
        /\ req[r].user = issued[i].payload

\* C10: no two issued tokens share a jti, so a guard reports a token revoked
\* only if that very token was logged out.
C10_FreshJti ==
    /\ \A i, k \in 1..Len(issued) :
         issued[i].payload.jti = issued[k].payload.jti => i = k
    /\ \A r \in Reqs :
         req[r].isBlacklisted = "true" => req[r].header[2] \in loggedOut

\* C10's case: of two tokens of one user the first is revoked and its row is in
\* the table, and the second is admitted.
C10_Witness ==
    \E i, k \in 1..Len(issued), r \in Reqs :
        /\ i # k
        /\ issued[i].payload.id = issued[k].payload.id
        /\ issued[i] \in loggedOut
        /\ LiveRow(issued[i].payload.jti)
        /\ req[r].header = <<"Bearer", issued[k]>>
        /\ req[r].isBlacklisted = "false"
        /\ req[r].nexted

\* C11: a logout that answers 'Logout successful' has left a row for the token's
\* jti with the token's exp as its expiry and the token's subject as its owner,
\* and no guard evaluation of that token that starts after it admits the token:
\* each one ends 401.
C11_LogoutRevokes ==
    /\ [][\A r \in Reqs :
            (req[r].pc = "insert" /\ req'[r].message = "Logout successful")
              => \E i \in 1..Len(store') :
                   /\ store'[i].jti = req[r].payload.jti
                   /\ store'[i].expiresAt = req[r].payload.exp * MsPerSec
                   /\ store'[i].userId = req[r].payload.id]_vars
    /\ [](\A r \in Reqs :
            (req[r].afterLogout /\ req[r].guard \in Guarded)
              => /\ ~req[r].nexted
                 /\ req[r].user = NoPayload
                 /\ req[r].pc = "done" => req[r].status = 401)

\* C12: with the timer firing at every interval for the life of the process and
\* the store answering, a row whose expiry has passed is eventually removed from
\* the table, whether or not it is ever looked up again.
C12_ExpiredEventuallyPurged ==
    \A j \in 1..MaxTokens : StaleRow(j) ~> (RowsOf(j) = {})

\* C12's case: a purge has removed an expired row that no lookup touched.
C12_Witness ==
    /\ purged.count > 0
    /\ \E t \in loggedOut : RowsOf(t.payload.jti) = {}
    /\ \A r \in Reqs : ~req[r].deleted /\ req[r].pc \notin {"lookup", "delete"}

\* A table holds no row for j.
NoRowIn(table, j) == \A k \in 1..Len(table) : table[k].jti # j

\* The rows of the other identifiers, in order.
OtherRows(table, j) == SelectSeq(table, LAMBDA row : row.jti # j)

\* C13: when the purge and the lazy delete of isJtiBlacklisted(j) race on j's
\* expired row, whichever comes first, the row is absent afterwards, the lookup
\* returns false, the request is not answered 500 and the rows of the other
\* identifiers are as they were; and the purge, running while a lookup awaits
\* its delete, removes expired rows only.
C13_PurgeLazyDeleteRace ==
    [][/\ \A r \in Reqs :
           (req[r].pc = "delete" /\ req'[r].pc # "delete") =>
              /\ req'[r].isBlacklisted = "false"
              /\ req'[r].status # 500
              /\ NoRowIn(store', req[r].payload.jti)
              /\ OtherRows(store', req[r].payload.jti) = OtherRows(store, req[r].payload.jti)
       /\ \A s \in Purges :
           (Purged(s) /\ \E r \in Reqs : req[r].pc = "delete") =>
              /\ \A i \in 1..Len(store) :
                   store[i].expiresAt >= purge[s] => \E k \in 1..Len(store') : store'[k] = store[i]
              /\ \A r \in Reqs : req'[r] = Settled[r]]_vars

\* C13's case: the purge removed the row between a lookup's findUnique and its
\* delete; the delete failed with P2025 and the lookup returned false.
C13_Witness ==
    \E r \in Reqs :
        /\ req[r].logged = "checking: P2025"
        /\ req[r].isBlacklisted = "false"
        /\ req[r].nexted
        /\ purged.count > 0
        /\ RowsOf(req[r].payload.jti) = {}

\* C14: cleanupExpiredTokens never throws to the timer that called it; a purge
\* whose deleteMany fails is logged, changes nothing, leaves the timer free to
\* fire again, and the requests in flight are as they were.
C14_PurgeFailureSwallowed ==
    /\ [](~purged.thrown)
    /\ [][\A s \in Purges :
            Purged(s) =>
              /\ purge' = [purge EXCEPT ![s] = NoRun]
              /\ req' = Settled
              /\ purged'.logged # "" =>
                   /\ purged'.logged = "cleanup: store unavailable"
                   /\ UNCHANGED <<store, now, issued, uuidCount, loggedOut>>]_vars

\* C14's case: a purge failed in the store, the timer has fired again and a
\* request is being served.
C14_Witness ==
    /\ purged.logged = "cleanup: store unavailable"
    /\ \E s \in Purges : purge[s] # NoRun
    /\ \E r \in Reqs : req[r].pc = "lookup"

\* revokeUserTokens(u) returns in this step.
Revoked(u) == purged'.userId = u /\ purged' # purged

Response(q) == <<q.status, q.message, q.errors>>

\* C16: whatever makes a token fail verification (no JWT at all, a payload
\* changed after signing, an expired token), verifyToken returns the same null
\* and the guard sends the same response: 401, 'Invalid or expired token', no
\* error detail.
C16_NoVerificationOracle ==
    /\ \A t \in Presentable :
         (t = Garbage \/ t.sig # Sign(JWT_SECRET, t.payload) \/ now >= t.payload.exp * MsPerSec)
            => verifyToken(t, now) = NoPayload
    /\ \A r \in Reqs :
         LET q == req[r] IN
         (q.guard \in Guarded /\ q.pc = "done" /\ WellFormed(q.header)
            /\ q.isBlacklisted = "pending" /\ q.status # 500)
           => /\ Response(q) = <<401, "Invalid or expired token", NoErrors>>
              /\ q.payload = NoPayload
              /\ q.user = NoPayload
              /\ ~q.nexted

\* C16's case: an expired token, genuinely issued, has been answered like a
\* forged one.
C16_Witness ==
    \E r \in Reqs :
        /\ req[r].guard \in Guarded
        /\ WellFormed(req[r].header)
        /\ req[r].header[2] \in Range(issued)
        /\ now >= req[r].header[2].payload.exp * MsPerSec
        /\ Response(req[r]) = <<401, "Invalid or expired token", NoErrors>>

\* C17: a response with the internal-error outcome (status 500), from a guard
\* or from a handler, carries the generic message only: its errors field is
\* empty, the fault's text is not in the body.
C17_NoInternalDetail ==
    \A r \in Reqs :
        req[r].status = 500
          => /\ req[r].message \in {"Authentication error", "Logout failed"}
             /\ req[r].errors = NoErrors

\* C18: a row enters the table only by blacklistToken's insert, no field of a
\* row changes while the row is in the table, and a row leaves the table only
\* once its expiry has passed (by the lazy delete or by the purge).
C18_RecordLifecycle ==
    [][/\ \A i \in 1..Len(store) :
           \/ \E k \in 1..Len(store') : store'[k] = store[i]
           \/ /\ NoRowIn(store', store[i].jti)
              /\ store[i].expiresAt < now
       /\ \A k \in 1..Len(store') :
           \/ \E i \in 1..Len(store) : store[i] = store'[k]
           \/ /\ store' = Append(store, store'[k])
              /\ \E t \in Range(issued) :
                   /\ store'[k].jti = t.payload.jti
                   /\ store'[k].expiresAt = t.payload.exp * MsPerSec]_vars

\* C19: a handler that creates, updates or deletes a persisted resource runs
\* only for a request a guard admitted: one carrying a verified admin or
\* operator claim that the lookup reported not revoked.
C19_MutationsGuarded ==
    \A r \in Reqs :
        req[r].mutated
          => /\ req[r].user # NoPayload
             /\ req[r].user.role \in {"admin", "operator"}
             /\ req[r].isBlacklisted = "false"

\* POST /login answers in slot r in this step.
LoggedIn(r) == req'[r].route = "/login"

\* C20: POST /login issues a token only for an existing, active account whose
\* password matches; an unknown email and a wrong password both get 401
\* 'Invalid email or password', an inactive account gets 403, and a login that
\* fails issues no token and changes nothing.
C20_LoginIssuesOnlyOnMatch ==
    [][\A r \in Reqs :
         LoggedIn(r) =>
           LET email == req'[r].body[1]
               password == req'[r].body[2]
               known == email \in Accounts
               matches == known /\ password = Password(email)
               answer == Response(req'[r])
           IN /\ issued' # issued =>
                   /\ known /\ IsActive(email) /\ matches
                   /\ req'[r].status = 200
                   /\ issued' = Append(issued, issued'[Len(issued')])
                   /\ issued'[Len(issued')].payload.id = email
                   /\ issued'[Len(issued')].payload.role = UserRole(email)
              /\ req'[r].status # 200 => UNCHANGED <<issued, uuidCount, store, now, purge, loggedOut>>
              /\ req'[r].status = 200 => issued' # issued
              /\ (ZodAccepts(email, password) /\ req'[r].status # 500) =>
                   /\ ~known => answer = <<401, "Invalid email or password", NoErrors>>
                   /\ (known /\ IsActive(email) /\ ~matches)
                        => answer = <<401, "Invalid email or password", NoErrors>>
                   /\ (known /\ ~IsActive(email))
                        => answer = <<403, "User account is inactive", NoErrors>>]_vars

\* C20's case: a wrong password for an existing, active account has been
\* answered 401 while a token of an earlier, successful login is outstanding.
C20_Witness ==
    \E r \in Reqs :
        /\ req[r].route = "/login"
        /\ req[r].body[1] \in Users
        /\ req[r].body[2] \in {Password(u) : u \in Accounts} \ {Password(req[r].body[1])}
        /\ Response(req[r]) = <<401, "Invalid email or password", NoErrors>>
        /\ Len(issued) = 1

\* The stored allocations of a donation.
AllocationsOf(donation_id) ==
    SelectSeq(db.allocations, LAMBDA a : a.donation_id = donation_id)

\* C21: for every donation, the percents of its stored allocations sum to 100
\* at most, whatever allocations were created and updated; a request that would
\* take the sum above 100 is answered 400 and stores nothing.
C21_TotalPercentBounded ==
    /\ \A d \in Donations : SumPercent(AllocationsOf(d)) <= 100
    /\ \A r \in Reqs :
         (req[r].route = "POST /donations/:id/allocations" /\ req[r].status = 201)
            => SumPercent(AllocationsOf(req[r].body[1])) <= 100

\* C25: POST /:id/allocations stores an allocation submitted without a percent
\* with percent = round(amount / target_amount * 100) and one submitted with a
\* percent with that percent, and rejects the body when these values sum to
\* more than 100.
C25_PercentComputed ==
    [][\A r \in Reqs :
         (req'[r].route = "POST /donations/:id/allocations" /\ req'[r].pc = "done"
            /\ req[r].pc # "done" /\ req'[r].body[1] \in Donations
            /\ \A k \in 1..Len(req'[r].body[2]) : ZodAllocation(req'[r].body[2][k]))
           => LET input == req'[r].body[2]
                  expected == [k \in 1..Len(input) |->
                                 IF input[k].percent = Absent
                                 THEN Round(input[k].amount * 100, TargetAmount)
                                 ELSE input[k].percent]
                  total == LET RECURSIVE Sum(_)
                               Sum(k) == IF k = 0 THEN 0 ELSE expected[k] + Sum(k - 1)
                           IN Sum(Len(input))
              IN IF total > 100
                 THEN req'[r].status = 400 /\ db' = db
                 ELSE /\ req'[r].status = 201
                      /\ Len(db'.allocations) = Len(db.allocations) + Len(input)
                      /\ \A k \in 1..Len(input) :
                           db'.allocations[Len(db.allocations) + k].percent = expected[k]]_vars

\* The list routes of the claim.
ListRoutes == {"GET /users", "GET /announcements"}

\* The number of rows of the table a list route reads.
TotalItems(route) == IF route = "GET /users" THEN UserCount ELSE db.announcements

\* C22: whatever page and limit a list request carries (absent, not a number,
\* zero, negative, oversized), the page of the response is at least 1 and the
\* limit is in 1..100, 10 when none is given; totalPages is the least number of
\* pages of that limit that hold all the items, hasNextPage says page is before
\* the last page and hasPrevPage that it is after the first; an empty table is
\* answered 404 with no page.
C22_Pagination ==
    \A r \in Reqs :
        LET q == req[r]
            p == q.pagination
        IN (q.route \in ListRoutes /\ q.pc = "done") =>
             IF TotalItems(q.route) = 0
             THEN q.status = 404 /\ p = <<>>
             ELSE /\ q.status = 200
                  /\ p.page >= 1
                  /\ p.limit \in 1..100
                  /\ q.body[1].kind = "number" /\ q.body[1].n >= 1 => p.page = q.body[1].n
                  /\ q.body[2].kind = "number" /\ q.body[2].n \in 1..100 => p.limit = q.body[2].n
                  /\ q.body[2].kind = "number" /\ q.body[2].n > 100 => p.limit = 100
                  /\ q.body[2].kind = "number" /\ q.body[2].n < 0 => p.limit = 1
                  /\ q.body[1].kind = "number" /\ q.body[1].n <= 0 => p.page = 1
                  /\ q.body[1].kind # "number" => p.page = 1
                  /\ (q.body[2].kind # "number" \/ q.body[2].n = 0) => p.limit = 10
                  /\ p.totalItems = TotalItems(q.route)
                  /\ p.totalPages * p.limit >= p.totalItems
                  /\ (p.totalPages - 1) * p.limit < p.totalItems
                  /\ p.hasNextPage <=> p.page < p.totalPages
                  /\ p.hasPrevPage <=> p.page > 1

\* C22's case: a request for the second page of two-item pages of a table of
\* three items got the last of two pages.
C22_Witness ==
    \E r \in Reqs :
        /\ req[r].route \in ListRoutes
        /\ req[r].status = 200
        /\ req[r].pagination.page = 2
        /\ req[r].pagination.limit = 2
        /\ req[r].pagination.totalItems = 3
        /\ req[r].pagination.totalPages = 2
        /\ ~req[r].pagination.hasNextPage
        /\ req[r].pagination.hasPrevPage

\* The messages of the error responses the two guards send.
GuardMessages ==
    {"Missing authorization header",
     "Invalid authorization header format. Expected: Bearer <token>",
     "Invalid or expired token",
     "Token has been revoked. Please login again.",
     "Authentication error"}
      \cup {Insufficient(guard) : guard \in Guarded}

\* The guard of request q has sent an error response.
GuardAnswered(q) == q.status \in {401, 403, 500} /\ q.message \in GuardMessages

\* C23: an evaluation of authMiddleware or requiredAdmin ends in exactly one of
\* two ways: next() called with the verified claim attached to the request and
\* no response sent by the guard, or one error response sent, next() not called
\* and nothing attached; until it ends the guard has done neither, and the
\* claim is on the request only once the request is admitted.
C23_OneOutcome ==
    \A r \in Reqs :
        LET q == req[r] IN
        q.guard \in Guarded =>
          /\ q.pc \in {"lookup", "delete"}
                => ~q.nexted /\ q.status = 0 /\ q.message = "" /\ q.user = NoPayload
          /\ q.pc \in {"insert", "done"}
                => \/ /\ q.nexted
                      /\ ~GuardAnswered(q)
                      /\ q.user # NoPayload
                      /\ q.user = q.payload
                      /\ q.user = decodeToken(q.header[2])
                   \/ /\ ~q.nexted
                      /\ GuardAnswered(q)
                      /\ q.pc = "done"
                      /\ q.user = NoPayload
          /\ q.user # NoPayload => q.nexted

\* C23's case: requiredAdmin has admitted an admin's token after the lookup,
\* with the claim attached and no response of its own.
C23_Witness ==
    \E r \in Reqs :
        /\ req[r].guard = "requiredAdmin"
        /\ req[r].isBlacklisted = "false"
        /\ req[r].nexted
        /\ req[r].user.role = "admin"
        /\ req[r].status = 0

\* A table without the rows whose expiry is before the cutoff.
PurgeOf(table, cutoff) == SelectSeq(table, LAMBDA row : row.expiresAt >= cutoff)

\* C24: two runs of cleanupExpiredTokens in flight at once do no harm: neither
\* fails, each removes exactly the rows before its cutoff that are still there
\* (none, when the other run took them), in either order the two leave the
\* table a single run with the later cutoff would leave, and what is left is
\* exactly the rows that had not expired.
C24_OverlappingPurges ==
    /\ [](\A s1, s2 \in Runs :
            (s1 # s2 /\ purge[s1] # NoRun /\ purge[s2] # NoRun) =>
               /\ PurgeOf(PurgeOf(store, purge[s1]), purge[s2])
                    = PurgeOf(PurgeOf(store, purge[s2]), purge[s1])
               /\ PurgeOf(PurgeOf(store, purge[s1]), purge[s2])
                    = PurgeOf(store, IF purge[s1] >= purge[s2] THEN purge[s1] ELSE purge[s2])
               /\ PurgeOf(PurgeOf(store, purge[s1]), purge[s1]) = PurgeOf(store, purge[s1]))
    /\ [][\A s \in Runs :
            (purge[s] # NoRun /\ purge'[s] = NoRun) =>
               /\ ~purged'.thrown
               /\ purged'.logged = ""
               /\ store' = PurgeOf(store, purge[s])
               /\ purged'.count = Len(store) - Len(store')
               /\ \A i \in 1..Len(store') : store'[i].expiresAt >= purge[s]
               /\ \A i \in 1..Len(store) :
                    store[i].expiresAt < purge[s] => NoRowIn(store', store[i].jti)
               /\ (purged.cutoff # NoRun /\ purged.cutoff >= purge[s])
                    => store' = store /\ purged'.count = 0]_vars

\* C24's case: of two runs in flight with the same expired row before their
\* cutoffs, one has removed the row while the other was still in flight, and
\* the other is about to find nothing.
C24_Witness ==
    /\ purged.others > 0
    /\ purged.count > 0
    /\ \E s \in Runs : purge[s] # NoRun /\ purge[s] >= purged.cutoff
    /\ PurgeOf(store, purged.cutoff) = store

\* C26: with revokeUserTokens and clearBlacklist never called, a token that was
\* logged out is never admitted again: whenever its row is gone or may be
\* removed (its expiry has passed), verifyToken rejects the token, and no guard
\* evaluation that starts after the logout attaches the claim or calls next().
C26_LoggedOutForGood ==
    /\ \A t \in loggedOut :
         (RowsOf(t.payload.jti) = {} \/ StaleRow(t.payload.jti))
            => verifyToken(t, now) = NoPayload
    /\ \A r \in Reqs :
         req[r].afterLogout => ~req[r].nexted /\ req[r].user = NoPayload

\* C27: the lazy delete of isJtiBlacklisted(j) removes rows of j only, and only
\* rows whose expiry is in the past when they are removed, also when the purge
\* removed the row the lookup had found and a logout has inserted a row for j
\* again before the delete by identifier runs.
C27_LazyDeleteOnlyExpired ==
    [][\A r \in Reqs :
         (req[r].pc = "delete" /\ req'[r].pc # "delete") =>
            \A i \in 1..Len(store) :
               (\A k \in 1..Len(store') : store'[k] # store[i])
                  => /\ store[i].jti = req[r].payload.jti
                     /\ store[i].expiresAt < now]_vars

\* C27's case: a lookup has found j's expired row and awaits its delete; the
\* purge has removed that row, and a logout admitted earlier has inserted a row
\* for j again, which the delete by identifier will remove.
C27_Witness ==
    \E r, x \in Reqs :
        /\ req[r].pc = "delete"
        /\ req[x].message = "Logout successful"
        /\ ~req[x].deleted
        /\ req[x].payload.jti = req[r].payload.jti
        /\ StaleRow(req[r].payload.jti)

\* C28: the guard never reads the user table: changing, deactivating or
\* deleting a user inserts no row in the blacklist, and a token that verifies
\* and was not logged out is admitted with the role it was issued with
\* whatever has become of its user since (403 only when the embedded role is
\* not permitted by the guard).
C28_GuardIgnoresUsers ==
    /\ [][db'.users # db.users => store' = store]_vars
    /\ [](\A r \in Reqs :
            LET q == req[r] IN
            (q.guard \in Guarded /\ q.pc \in {"insert", "done"}
               /\ q.payload # NoPayload /\ ~q.afterLogout)
              => IF q.payload.role \in Permitted(q.guard)
                 THEN /\ q.nexted
                      /\ q.user = decodeToken(q.header[2])
                      /\ q.user.role = q.header[2].payload.role
                 ELSE q.status = 403 /\ ~q.nexted)

\* C28's case: a token issued to an admin is admitted by requiredAdmin, as
\* admin, after the account was demoted to operator, deactivated and deleted,
\* and the blacklist is empty.
C28_Witness ==
    \E r \in Reqs :
        /\ req[r].guard = "requiredAdmin"
        /\ req[r].nexted
        /\ req[r].user.role = "admin"
        /\ db.users[req[r].user.id].role = "operator"
        /\ ~db.users[req[r].user.id].isActive
        /\ ~db.users[req[r].user.id].present
        /\ store = <<>>

\* C29: of the concurrent POST /logout requests that carry one valid token, one
\* inserts the row and answers 'Logout successful'; every other one that the
\* guard admitted meets the unique index and answers 500 'Logout failed',
\* leaving the table as it is; the table never holds a second row for the
\* identifier; and the token is answered 401 by every guard evaluation that
\* starts after the successful insert.
C29_ConcurrentLogouts ==
    /\ [](\A t \in loggedOut : Cardinality(RowsOf(t.payload.jti)) <= 1)
    /\ [][\A r \in Reqs :
            (req[r].pc = "insert" /\ req'[r].pc = "done" /\ req[r].header[2] \in loggedOut)
               => /\ req'[r].status = 500
                  /\ req'[r].message = "Logout failed"
                  /\ store' = store]_vars
    /\ [](\A r \in Reqs :
            (req[r].afterLogout /\ req[r].pc \in {"insert", "done"})
               => req[r].status = 401 /\ ~req[r].nexted)

\* C30: every stored class has min_age <= max_age and started_at < ended_at,
\* whatever classes were created and updated by requests that passed
\* validation, updates of a single member of a pair included.
C30_ClassRanges ==
    \A i \in 1..Len(db.classes) :
        /\ db.classes[i].min_age <= db.classes[i].max_age
        /\ db.classes[i].started_at < db.classes[i].ended_at

====
